---- MODULE Spec2Model ----
(***************************************************************************)
(* Model of the frontend: the Events page (src/src/Events.tsx) with its    *)
(* client-side conflict check checkEventConflict and the fetchSchedules /  *)
(* fetchEvents effects that feed it, and the AuthProvider                  *)
(* (src/src/useAuth.tsx) with the App shell (src/src/App.tsx).             *)
(*                                                                         *)
(* SpecEval  : checkEventConflict as a pure function over bounded inputs.  *)
(* Spec      : the Events component with its two asynchronous fetches.     *)
(* SpecAuth  : sign-in, sign-up, logout and the onAuthStateChanged         *)
(*             observer, what App renders, and the requests components     *)
(*             issue with the token of the auth context.                   *)
(* SpecSignIn: the three sign-in and sign-up calls, Google included, with  *)
(*             the observer and logout.                                    *)
(* SpecForm  : the create / edit form of the Events component.             *)
(* SpecFeed  : the pagination of the Feed (src/src/Feed.tsx).              *)
(* SpecSearch: the debounced user search of Friends (src/src/Friends.tsx). *)
(* SpecProfile: the loading of the Profile page (src/src/Profile.tsx),     *)
(*             with weak fairness for renders and request completions.     *)
(***************************************************************************)
EXTENDS Integers, Sequences, FiniteSets, Bags, TLC

VARIABLES
    \* ---- inputs and result of one checkEventConflict call (SpecEval)
    evalEvent,        \* the `event` argument
    evalSchedules,    \* the `schedules` the closure reads
    evalResult,       \* the returned { canRegister, reason? }
    evalPc,           \* "idle" before the call, "done" after it
    \* ---- the Events component (Spec)
    mounted,          \* the component has rendered and run its effects once
    idToken,          \* useAuth().idToken
    userProfile,      \* useAuth().userProfile
    schedules,        \* useState<Schedule[]>([]): [list, initial], initial = the
                      \*   array is still the useState placeholder
    events,           \* useState<Event[]>([])
    loading,          \* useState(true)
    error,            \* useState<string | null>(null)
    schedulesPending, \* number of fetchSchedules calls awaiting their response
    eventsPending,    \* the fetchEvents calls awaiting their response, each with
                      \*   the schedules its closure captured
    issued,           \* number of fetchEvents calls started so far
    profileLoads,     \* number of userProfile objects the auth context has set
    lastPass,         \* history: the last annotation pass of fetchEvents: the
                      \*   schedules its closure captured, the list read for each
                      \*   event, whether schedules had been replaced since the
                      \*   call started, whether a fetchSchedules call was pending
    raced,            \* history: schedules was replaced while a fetchEvents call
                      \*   was awaiting its response
    \* ---- the AuthProvider, the App shell and the Firebase SDK (SpecAuth)
    currentUser,      \* useState<User | null>(null) of AuthProvider
    authLoading,      \* useState(true) of AuthProvider: the context's `loading`
    firebaseUser,     \* auth.currentUser inside the Firebase SDK
    authNotice,       \* the SDK is about to call the subscribed observer of
                      \*   onAuthStateChanged with auth.currentUser
    authTasks,        \* bag of the async functions awaiting a promise, each
                      \*   [kind, pc]
    authOps,          \* number of sign-in, sign-up and logout calls started
    currentPage,      \* useState<Page>('feed') of App
    loginError,       \* the message Login.handleSubmit passed to setError
    sent,             \* history: the API requests issued, each [api, token]
    refused,          \* history: the functions that stopped at their token guard
    loggedOut,        \* history: signOut has taken effect and no sign-in has
                      \*   been submitted since
    flowEnd,          \* history: how a sign-in or sign-up call ended, [kind,
                      \*   cause, outcome, message], if one has ended since the
                      \*   last sign-in, sign-up or logout was started
    \* ---- the create / edit form of the Events component (SpecForm)
    showCreateForm,   \* useState(false)
    editingEvent,     \* useState<Event | null>(null)
    formData,         \* useState({title: '', ..., capacity: ''})
    success,          \* useState<string | null>(null)
    submitsPending,   \* bag of the handleCreateEvent / handleUpdateEvent calls
                      \*   awaiting their response, each [kind]
    submits,          \* number of form submissions so far
    lastOk,           \* history: the kind of the submission whose OK response
                      \*   was the last thing to happen to the form
    \* ---- the Feed component (SpecFeed)
    posts,            \* useState<Post[]>([]): the pages it holds, each page of
                      \*   posts named by the offset it was served at
    skip,             \* useState(0)
    hasMore,          \* useState(false)
    feedLoading,      \* useState(true): `loading` of Feed
    feedError,        \* useState<string | null>(null): `error` of Feed
    feedPending,      \* the fetchPosts and handleCreatePost calls awaiting their
                      \*   response, each [kind, offset]
    feedOps,          \* number of loadMore clicks and post submissions so far
    feedDisturbed,    \* history: an operation started while another was pending,
                      \*   or a request failed
    \* ---- the user search of the Friends component (SpecSearch)
    activeTab,        \* useState<...>('search')
    searchQuery,      \* useState('')
    searchResults,    \* useState<User[]>([])
    searchTimer,      \* the setTimeout of the debounced effect is armed
    searchPending,    \* the searchUsers calls awaiting their response, each
                      \*   [id, query]
    searchIssued,     \* number of search requests issued so far
    lastAnswer,       \* history: what the most recently issued request was
                      \*   answered with
    \* ---- the Profile component (SpecProfile)
    profileMounted,   \* Profile has rendered and its effect has run
    profileLoading,   \* useState(true): `loading` of Profile
    profileData,      \* useState({first_name: '', ...})
    activeSection,    \* useState<...>('profile')
    profileLists,     \* which of schedules, allInterests and userInterests have
                      \*   been set from a response
    profilePending,   \* the requests of Profile awaiting their response
    mePending         \* number of GET /api/users/me requests of the AuthProvider
                      \*   awaiting their response

evalVars == <<evalEvent, evalSchedules, evalResult, evalPc>>

eventsVars == <<mounted, idToken, userProfile, schedules, events, loading, error,
                schedulesPending, eventsPending, issued, profileLoads, lastPass,
                raced>>

\* the state of the Events component alone
eventsOwnVars == <<mounted, schedules, events, loading, error, schedulesPending,
                   eventsPending, issued, profileLoads, lastPass, raced>>

authVars == <<currentUser, authLoading, firebaseUser, authNotice, authTasks,
              authOps, currentPage, loginError, sent, refused, loggedOut, flowEnd>>

formVars == <<showCreateForm, editingEvent, formData, success, submitsPending,
              submits, lastOk>>

feedVars == <<posts, skip, hasMore, feedLoading, feedError, feedPending, feedOps,
              feedDisturbed>>

searchVars == <<activeTab, searchQuery, searchResults, searchTimer, searchPending,
                searchIssued, lastAnswer>>

profileVars == <<profileMounted, profileLoading, profileData, activeSection,
                 profileLists, profilePending, mePending>>

\* the state of the pages other than Events
otherPagesVars == <<feedVars, searchVars, profileVars>>

\* the state of everything below the events table
pageVars == <<formVars, otherPagesVars>>

vars == <<evalEvent, evalSchedules, evalResult, evalPc, mounted, idToken,
          userProfile, schedules, events, loading, error, schedulesPending,
          eventsPending, issued, profileLoads, lastPass, raced, currentUser,
          authLoading, firebaseUser, authNotice, authTasks, authOps, currentPage,
          loginError, sent, refused, loggedOut, flowEnd, showCreateForm, editingEvent,
          formData, success, submitsPending, submits, lastOk, posts, skip,
          hasMore, feedLoading, feedError, feedPending, feedOps, feedDisturbed,
          activeTab, searchQuery, searchResults, searchTimer, searchPending,
          searchIssued, lastAnswer, profileMounted, profileLoading, profileData,
          activeSection, profileLists, profilePending, mePending>>

-----------------------------------------------------------------------------
(* Bounds                                                                  *)

\* instants are 0..MaxTime
MaxTime == 2
\* longest schedules list handed to checkEventConflict
MaxSchedules == 2
\* schedule entries the server holds for the user
MaxServerSchedules == 1
\* events the server holds (the longest page it answers with)
MaxPage == 2
\* fetchEvents calls started during one lifetime of the component
MaxFetchEvents == 3
\* userProfile objects the auth context sets after the component has mounted
MaxProfileLoads == 1
\* sign-in, sign-up and logout calls started during one lifetime of the page
MaxAuthOps == 2
\* submissions of the create / edit form during one lifetime of the page
MaxSubmits == 2
\* pages of posts the server holds
MaxFeedPages == 3
\* loadMore clicks and post submissions during one lifetime of the feed
MaxFeedOps == 3
\* search requests issued during one lifetime of the Friends page
MaxSearches == 3
\* GET /api/users/me requests the AuthProvider issues for one token
MaxMeRequests == 2

-----------------------------------------------------------------------------
(* Values                                                                  *)

\* a property that is absent from a JavaScript object
Undefined == "undefined"

\* JavaScript null, where a string may stand
Null == "null"

\* JavaScript null, where an object may stand
NullObject == [null |-> TRUE]

\* the time value of an Invalid Date
NaN == 0 - 1

\* a start_time / end_time string the Date constructor cannot parse
InvalidTimeString == 0 - 1

\* start_time / end_time strings that denote an instant
Instants == 0..MaxTime

\* Schedule.type
ScheduleTypes == {"class", "event", "personal"}

\* the (title, type) pairs of the schedule entries drawn as inputs, in a fixed
\* order: one free-text title for each type
LabelList == <<[title |-> "Algorithms", type |-> "class"],
               [title |-> "Lunch", type |-> "personal"],
               [title |-> "Concert", type |-> "event"]>>

ScheduleLabels == {LabelList[i] : i \in 1..Len(LabelList)}

\* interface Schedule, the fields checkEventConflict reads
Schedule == {[start_time |-> s, end_time |-> e, type |-> l.type, title |-> l.title] :
                s \in Instants, e \in Instants, l \in ScheduleLabels}

\* interface Event as the server sends it, the fields checkEventConflict reads
Event == [event_id : {1}, start_time : Instants, end_time : Instants]

\* all lists over S of length at most n
SeqUpTo(S, n) == UNION {[1..k -> S] : k \in 0..n}

-----------------------------------------------------------------------------
(* checkEventConflict                                                      *)

\* new Date(s): the instant, or an Invalid Date
NewDate(s) == IF s = InvalidTimeString THEN NaN ELSE s

\* relational operators on two Dates: false as soon as one is Invalid
DateLt(a, b) == a # NaN /\ b # NaN /\ a < b
DateLe(a, b) == a # NaN /\ b # NaN /\ a <= b
DateGt(a, b) == a # NaN /\ b # NaN /\ a > b
DateGe(a, b) == a # NaN /\ b # NaN /\ a >= b

\* OverlapTest with the first clause closed at the schedule's end (<= for <)
OverlapTestClosedEnd(eventStart, eventEnd, scheduleStart, scheduleEnd) ==
    \/ (DateGe(eventStart, scheduleStart) /\ DateLe(eventStart, scheduleEnd))
    \/ (DateGt(eventEnd, scheduleStart) /\ DateLe(eventEnd, scheduleEnd))
    \/ (DateLe(eventStart, scheduleStart) /\ DateGe(eventEnd, scheduleEnd))

\* OverlapTest with the second clause closed at the schedule's start (>= for >)
OverlapTestClosedStart(eventStart, eventEnd, scheduleStart, scheduleEnd) ==
    \/ (DateGe(eventStart, scheduleStart) /\ DateLt(eventStart, scheduleEnd))
    \/ (DateGe(eventEnd, scheduleStart) /\ DateLe(eventEnd, scheduleEnd))
    \/ (DateLe(eventStart, scheduleStart) /\ DateGe(eventEnd, scheduleEnd))

\* OverlapTest without its second clause (the event's end inside the schedule)
OverlapTestNoEndClause(eventStart, eventEnd, scheduleStart, scheduleEnd) ==
    \/ (DateGe(eventStart, scheduleStart) /\ DateLt(eventStart, scheduleEnd))
    \/ (DateLe(eventStart, scheduleStart) /\ DateGe(eventEnd, scheduleEnd))

\* OverlapTest with a strict third clause (< and > for <= and >=)
OverlapTestStrictCover(eventStart, eventEnd, scheduleStart, scheduleEnd) ==
    \/ (DateGe(eventStart, scheduleStart) /\ DateLt(eventStart, scheduleEnd))
    \/ (DateGt(eventEnd, scheduleStart) /\ DateLe(eventEnd, scheduleEnd))
    \/ (DateLt(eventStart, scheduleStart) /\ DateGt(eventEnd, scheduleEnd))

\* OverlapTest that first puts the endpoints of both intervals in order
OverlapTestOrdered(eventStart, eventEnd, scheduleStart, scheduleEnd) ==
    LET lo(a, b) == IF DateLe(a, b) THEN a ELSE b
        hi(a, b) == IF DateLe(a, b) THEN b ELSE a
        es == lo(eventStart, eventEnd)
        ee == hi(eventStart, eventEnd)
        ss == lo(scheduleStart, scheduleEnd)
        se == hi(scheduleStart, scheduleEnd)
    IN  \/ (DateGe(es, ss) /\ DateLt(es, se))
        \/ (DateGt(ee, ss) /\ DateLe(ee, se))
        \/ (DateLe(es, ss) /\ DateGe(ee, se))

\* OverlapTest as the test of two closed intervals: touching counts as overlap
OverlapTestClosedIntervals(eventStart, eventEnd, scheduleStart, scheduleEnd) ==
    DateLe(eventStart, scheduleEnd) /\ DateGe(eventEnd, scheduleStart)

\* the condition of the if statement in the loop body
OverlapTest(eventStart, eventEnd, scheduleStart, scheduleEnd) ==
    \/ (DateGe(eventStart, scheduleStart) /\ DateLt(eventStart, scheduleEnd))
    \/ (DateGt(eventEnd, scheduleStart) /\ DateLe(eventEnd, scheduleEnd))
    \/ (DateLe(eventStart, scheduleStart) /\ DateGe(eventEnd, scheduleEnd))

\* ConflictReason with title and type exchanged
ConflictReasonTypeFirst(schedule) ==
    "Conflicts with " \o schedule.type \o " (" \o schedule.title \o ")"

\* the template literal `Conflicts with ${schedule.title} (${schedule.type})`
ConflictReason(schedule) ==
    "Conflicts with " \o schedule.title \o " (" \o schedule.type \o ")"

\* ScanSchedules without the early return: the last hit is the one reported
RECURSIVE ScanSchedulesLast(_, _, _)
ScanSchedulesLast(event, scheds, i) ==
    IF i > Len(scheds)
    THEN [canRegister |-> TRUE, reason |-> Undefined]
    ELSE LET rest == ScanSchedulesLast(event, scheds, i + 1)
         IN  IF ~rest.canRegister
             THEN rest
             ELSE IF OverlapTest(NewDate(event.start_time), NewDate(event.end_time),
                                 NewDate(scheds[i].start_time),
                                 NewDate(scheds[i].end_time))
                  THEN [canRegister |-> FALSE, reason |-> ConflictReason(scheds[i])]
                  ELSE rest

\* ScanSchedules with the final return moved into the loop body: only the first
\* entry is tested
ScanSchedulesFirstOnly(event, scheds, i) ==
    IF i > Len(scheds)
    THEN [canRegister |-> TRUE, reason |-> Undefined]
    ELSE IF OverlapTest(NewDate(event.start_time), NewDate(event.end_time),
                        NewDate(scheds[i].start_time), NewDate(scheds[i].end_time))
         THEN [canRegister |-> FALSE, reason |-> ConflictReason(scheds[i])]
         ELSE [canRegister |-> TRUE, reason |-> Undefined]

\* the for loop from its i-th iteration on: return at the first hit
RECURSIVE ScanSchedules(_, _, _)
ScanSchedules(event, scheds, i) ==
    IF i > Len(scheds)
    THEN [canRegister |-> TRUE, reason |-> Undefined]
    ELSE IF OverlapTest(NewDate(event.start_time), NewDate(event.end_time),
                        NewDate(scheds[i].start_time), NewDate(scheds[i].end_time))
         THEN [canRegister |-> FALSE, reason |-> ConflictReason(scheds[i])]
         ELSE ScanSchedules(event, scheds, i + 1)

\* checkEventConflict that refuses registration while no schedule is loaded
checkEventConflictEmptyBlocks(event, scheds) ==
    IF Len(scheds) = 0
    THEN [canRegister |-> FALSE, reason |-> "Schedules not loaded"]
    ELSE ScanSchedules(event, scheds, 1)

\* checkEventConflict(event) in a render whose schedules state is scheds
checkEventConflict(event, scheds) == ScanSchedules(event, scheds, 1)

-----------------------------------------------------------------------------
(* SpecEval: one call of checkEventConflict                                *)

\* the Events component before it is mounted: the useState initial values
EventsUnmounted ==
    /\ mounted = FALSE
    /\ schedules = [list |-> <<>>, initial |-> TRUE]
    /\ events = <<>>
    /\ loading = TRUE
    /\ error = Null
    /\ schedulesPending = 0
    /\ eventsPending = {}
    /\ issued = 0
    /\ profileLoads = 0
    /\ lastPass = NullObject
    /\ raced = FALSE

\* no sign-in or sign-up call has ended since the last one was started
NoFlow == [kind |-> "none", cause |-> "none", outcome |-> "none", message |-> ""]

\* formData as useState initialises it and as resetForm leaves it
EmptyForm ==
    [title |-> "", description |-> "", location |-> "", start_time |-> "",
     end_time |-> "", capacity |-> ""]

\* the form of the Events component as useState initialises it
FormClosed ==
    /\ showCreateForm = FALSE
    /\ editingEvent = NullObject
    /\ formData = EmptyForm
    /\ success = Null
    /\ submitsPending = EmptyBag
    /\ submits = 0
    /\ lastOk = "none"

\* the Feed component as useState initialises it
FeedUnmounted ==
    /\ posts = <<>>
    /\ skip = 0
    /\ hasMore = FALSE
    /\ feedLoading = TRUE
    /\ feedError = Null
    /\ feedPending = {}
    /\ feedOps = 0
    /\ feedDisturbed = FALSE

\* the user search of Friends as useState initialises it
SearchUnmounted ==
    /\ activeTab = "search"
    /\ searchQuery = ""
    /\ searchResults = <<>>
    /\ searchTimer = FALSE
    /\ searchPending = {}
    /\ searchIssued = 0
    /\ lastAnswer = <<>>

\* the empty profileData of useState
EmptyProfileData ==
    [first_name |-> "", last_name |-> "", username |-> "", email |-> "",
     profile_picture |-> ""]

\* the Profile component as useState initialises it
ProfileUnmounted ==
    /\ profileMounted = FALSE
    /\ profileLoading = TRUE
    /\ profileData = EmptyProfileData
    /\ activeSection = "profile"
    /\ profileLists = {}
    /\ profilePending = {}
    /\ mePending = 0

\* the pages other than the events table before they are used
PagesUnmounted == FormClosed /\ FeedUnmounted /\ SearchUnmounted /\ ProfileUnmounted

\* the AuthProvider and the App before anything has happened: the useState
\* initial values, nobody signed in
AuthUnmounted ==
    /\ currentUser = NullObject
    /\ authLoading = TRUE
    /\ firebaseUser = NullObject
    /\ authNotice = FALSE
    /\ authTasks = EmptyBag
    /\ authOps = 0
    /\ currentPage = "feed"
    /\ loginError = ""
    /\ sent = {}
    /\ refused = {}
    /\ loggedOut = FALSE
    /\ flowEnd = NoFlow

InitEval ==
    /\ evalEvent \in Event
    /\ evalSchedules \in SeqUpTo(Schedule, MaxSchedules)
    /\ evalResult = NullObject
    /\ evalPc = "idle"
    /\ idToken = Null
    /\ userProfile = NullObject
    /\ EventsUnmounted
    /\ PagesUnmounted
    /\ AuthUnmounted

\* Evaluate that puts the schedules array in reverse order in place before the
\* loop (schedules.reverse())
EvaluateReversing ==
    /\ evalPc = "idle"
    /\ evalSchedules' = [i \in 1..Len(evalSchedules) |->
                            evalSchedules[Len(evalSchedules) + 1 - i]]
    /\ evalResult' = checkEventConflict(evalEvent, evalSchedules')
    /\ evalPc' = "done"
    /\ UNCHANGED evalEvent
    /\ UNCHANGED <<eventsVars, authVars, pageVars>>

Evaluate ==
    /\ evalPc = "idle"
    /\ evalResult' = checkEventConflict(evalEvent, evalSchedules)
    /\ evalPc' = "done"
    /\ UNCHANGED <<evalEvent, evalSchedules>>
    /\ UNCHANGED <<eventsVars, authVars, pageVars>>

NextEval == Evaluate

SpecEval == InitEval /\ [][NextEval]_vars

-----------------------------------------------------------------------------
(* Spec: the Events component                                              *)

\* the bearer token the auth context holds once signed in
Token == "token"

\* the user_id of the signed-in user's profile
UserId == 7

\* the User object of the Firebase SDK for the person at the browser
FirebaseUser == [uid |-> "uid"]

\* the Events page as App renders it: somebody is signed in, the auth context has
\* finished loading, the page selected is 'events'
EventsPageShown ==
    /\ currentUser = FirebaseUser
    /\ authLoading = FALSE
    /\ firebaseUser = FirebaseUser
    /\ authNotice = FALSE
    /\ authTasks = EmptyBag
    /\ authOps = 0
    /\ currentPage = "events"
    /\ loginError = ""
    /\ sent = {}
    /\ refused = {}
    /\ loggedOut = FALSE
    /\ flowEnd = NoFlow

\* the entries of `table` at the indices in I, in the order of the table
RECURSIVE Pick(_, _)
Pick(table, I) ==
    IF I = {} THEN <<>>
    ELSE LET m == CHOOSE i \in I : \A j \in I : j <= i
         IN  Append(Pick(table, I \ {m}), table[m])

\* the lists the server can answer with when it holds `table`: any selection of
\* its rows, in the order of the table
Selections(table) == {Pick(table, I) : I \in SUBSET (1..Len(table))}

\* the schedule entries the server holds for the user, at one time or another:
\* hour-long entries at instants 0 and 1 in turn
ServerSchedules ==
    [i \in 1..MaxServerSchedules |->
        [start_time |-> (i - 1) % 2, end_time |-> ((i - 1) % 2) + 1,
         type |-> LabelList[((i - 1) % 3) + 1].type,
         title |-> LabelList[((i - 1) % 3) + 1].title]]

\* the events the server holds: hour-long events at instants 0 and 1 in turn
ServerEvents ==
    [i \in 1..MaxPage |->
        [event_id |-> i, start_time |-> (i - 1) % 2, end_time |-> ((i - 1) % 2) + 1]]

\* the one-row list made of the first row of the table with its start_time
\* replaced by a string that is not a date: JSON carries any string in that field
Malformed(table) ==
    IF Len(table) = 0 THEN {}
    ELSE {<<[table[1] EXCEPT !.start_time = InvalidTimeString]>>}

\* the JSON bodies of an OK response to GET /api/users/{id}/schedules
\* (kind "array": the body is the array `items`; kind "object": the body is an
\* object, with a property `items` when hasItems)
SchedulesBody ==
    [kind : {"array"}, hasItems : {FALSE},
     items : Selections(ServerSchedules) \cup Malformed(ServerSchedules)]
        \cup {[kind |-> "object", hasItems |-> FALSE, items |-> <<>>]}

\* the JSON bodies of an OK response to GET /api/events
EventsBody ==
    [kind : {"array"}, hasItems : {FALSE},
     items : Selections(ServerEvents) \cup Malformed(ServerEvents)]
        \cup [kind : {"object"}, hasItems : {TRUE},
              items : Selections(ServerEvents)]
        \cup {[kind |-> "object", hasItems |-> FALSE, items |-> <<>>]}

\* the ways a fetchEvents call ends in its catch block
EventsFailure == {"not ok", "network error", "error without message"}

\* Array.isArray(data) ? data : []
SchedulesOf(data) == IF data.kind = "array" THEN data.items ELSE <<>>

\* Array.isArray(data) ? data : (data.items || [])
EventsListOf(data) ==
    IF data.kind = "array" THEN data.items
    ELSE IF data.hasItems THEN data.items ELSE <<>>

\* error.message || 'Failed to load events'
EventsErrorMessage(failure) ==
    CASE failure = "not ok" -> "Failed to fetch events"
      [] failure = "network error" -> "Failed to fetch"
      [] OTHER -> "Failed to load events"

\* Annotated reading a property the result does not have (conflictCheck.message
\* for conflictCheck.reason): conflictReason is always absent
AnnotatedReasonLost(event, conflictCheck) ==
    [event_id |-> event.event_id, start_time |-> event.start_time,
     end_time |-> event.end_time, canRegister |-> conflictCheck.canRegister,
     conflictReason |-> Undefined]

\* { ...event, canRegister: conflictCheck.canRegister,
\*   conflictReason: conflictCheck.reason }
Annotated(event, conflictCheck) ==
    [event_id |-> event.event_id, start_time |-> event.start_time,
     end_time |-> event.end_time, canRegister |-> conflictCheck.canRegister,
     conflictReason |-> conflictCheck.reason]

\* SnapshotRead where only the first event of the page reads the captured list and
\* the others read the schedules state current when the response arrives
SnapshotReadLive(request, i) ==
    IF i = 1 THEN request.schedules.list ELSE schedules.list

\* the schedules list that checkEventConflict reads for the i-th event of the page:
\* the one captured by the closure of the fetchEvents call
SnapshotRead(request, i) == request.schedules.list

\* eventsList.map(event => ...) in the fetchEvents call `request`
AnnotatePage(eventsList, request) ==
    [i \in 1..Len(eventsList) |->
        Annotated(eventsList[i],
                  checkEventConflict(eventsList[i], SnapshotRead(request, i)))]

\* the effect on [idToken, userProfile, fetchSchedules] runs with token tok and
\* profile prof: the number of fetchSchedules requests it starts
FetchSchedulesStarted(tok, prof) ==
    IF tok # Null /\ prof # NullObject
    THEN (IF tok = Null \/ prof.user_id = 0 THEN 0 ELSE 1)
    ELSE 0

\* the effect on [idToken, schedules, fetchEvents] runs with token tok and
\* schedules state scheds: fetchEvents() up to its await
RunEventsEffect(tok, scheds) ==
    IF tok # Null /\ Len(scheds.list) >= 0
    THEN /\ eventsPending' =
                eventsPending \cup {[id |-> issued + 1, schedules |-> scheds]}
         /\ issued' = issued + 1
         /\ loading' = TRUE
         /\ error' = Null
    ELSE UNCHANGED <<eventsPending, issued, loading, error>>

\* what the component renders below its header: the sign-in hint, the loading
\* line, the empty-list line or the table of events
EventsView ==
    IF currentUser = NullObject THEN "Please log in to view events."
    ELSE IF loading THEN "Loading events..."
    ELSE IF Len(events) = 0 THEN "No events found. Create your first event!"
    ELSE "table"

\* RegisterButton that renders the button in every row
RegisterButtonAlways(event) == TRUE

\* {event.canRegister && (<button ...>Register</button>)} in the row of `event`
RegisterButton(event) == event.canRegister = TRUE

\* the status cell in the row of `event`
StatusCell(event) == IF event.canRegister = TRUE THEN "Available" ELSE "Conflict"

\* the rows of the table that show a Register button
RegisterOffered ==
    IF EventsView = "table"
    THEN {i \in 1..Len(events) : RegisterButton(events[i])}
    ELSE {}

Init ==
    /\ evalEvent = NullObject
    /\ evalSchedules = <<>>
    /\ evalResult = NullObject
    /\ evalPc = "off"
    /\ idToken \in {Null, Token}
    /\ userProfile \in {NullObject, [user_id |-> UserId, object |-> 0]}
    /\ EventsUnmounted
    /\ PagesUnmounted
    /\ EventsPageShown

\* first render of the component: both effects run
Mount ==
    /\ ~mounted
    /\ mounted' = TRUE
    /\ schedulesPending' = schedulesPending + FetchSchedulesStarted(idToken, userProfile)
    /\ RunEventsEffect(idToken, schedules)
    /\ UNCHANGED <<idToken, userProfile, schedules, events, profileLoads, lastPass,
                   raced>>
    /\ UNCHANGED <<evalVars, authVars, pageVars>>

\* the auth context sets idToken: both effects run again
AuthTokenSet ==
    /\ mounted /\ idToken = Null
    /\ issued < MaxFetchEvents
    /\ idToken' = Token
    /\ schedulesPending' = schedulesPending + FetchSchedulesStarted(Token, userProfile)
    /\ RunEventsEffect(Token, schedules)
    /\ UNCHANGED <<mounted, userProfile, schedules, events, profileLoads, lastPass,
                   raced>>
    /\ UNCHANGED <<evalVars, authVars, pageVars>>

\* the auth context sets a userProfile object: the fetchSchedules effect runs again
AuthProfileSet ==
    /\ mounted /\ profileLoads < MaxProfileLoads
    /\ profileLoads' = profileLoads + 1
    /\ userProfile' = [user_id |-> UserId, object |-> profileLoads + 1]
    /\ schedulesPending' = schedulesPending + FetchSchedulesStarted(idToken, userProfile')
    /\ UNCHANGED <<mounted, idToken, schedules, events, loading, error,
                   eventsPending, issued, lastPass, raced>>
    /\ UNCHANGED <<evalVars, authVars, pageVars>>

\* a fetchSchedules call gets an OK response: setSchedules, then the fetchEvents
\* effect runs with the new schedules
SchedulesResponseOk ==
    /\ schedulesPending > 0
    /\ issued < MaxFetchEvents
    /\ \E data \in SchedulesBody :
          /\ schedules' = [list |-> SchedulesOf(data), initial |-> FALSE]
          /\ RunEventsEffect(idToken, schedules')
    /\ schedulesPending' = schedulesPending - 1
    /\ raced' = (raced \/ eventsPending # {})
    /\ UNCHANGED <<mounted, idToken, userProfile, events, profileLoads, lastPass>>
    /\ UNCHANGED <<evalVars, authVars, pageVars>>

\* SchedulesResponseFail that reports the failure to the user (setError)
SchedulesResponseFailReporting ==
    /\ schedulesPending > 0
    /\ schedulesPending' = schedulesPending - 1
    /\ error' = "Failed to load schedules"
    /\ UNCHANGED <<mounted, idToken, userProfile, schedules, events, loading,
                   eventsPending, issued, profileLoads, lastPass, raced>>
    /\ UNCHANGED <<evalVars, authVars, pageVars>>

\* a fetchSchedules call gets a response that is not OK, or fetch rejects
SchedulesResponseFail ==
    /\ schedulesPending > 0
    /\ schedulesPending' = schedulesPending - 1
    /\ UNCHANGED <<mounted, idToken, userProfile, schedules, events, loading, error,
                   eventsPending, issued, profileLoads, lastPass, raced>>
    /\ UNCHANGED <<evalVars, authVars, pageVars>>

\* a fetchEvents call gets an OK response with a JSON body: annotate, setEvents,
\* setLoading(false)
EventsResponseOk ==
    \E request \in eventsPending, data \in EventsBody :
        /\ events' = AnnotatePage(EventsListOf(data), request)
        /\ loading' = FALSE
        /\ eventsPending' = eventsPending \ {request}
        /\ lastPass' = [captured |-> request.schedules,
                        reads |-> [i \in 1..Len(EventsListOf(data)) |->
                                      SnapshotRead(request, i)],
                        replaced |-> (schedules # request.schedules),
                        fetching |-> (schedulesPending > 0)]
        /\ UNCHANGED <<mounted, idToken, userProfile, schedules, error,
                       schedulesPending, issued, profileLoads, raced>>
        /\ UNCHANGED <<evalVars, authVars, pageVars>>

\* EventsResponseFail whose catch block also empties the list (setEvents([]))
EventsResponseFailClearing ==
    \E request \in eventsPending, failure \in EventsFailure :
        /\ error' = EventsErrorMessage(failure)
        /\ events' = <<>>
        /\ loading' = FALSE
        /\ eventsPending' = eventsPending \ {request}
        /\ UNCHANGED <<mounted, idToken, userProfile, schedules,
                       schedulesPending, issued, profileLoads, lastPass, raced>>
        /\ UNCHANGED <<evalVars, authVars, pageVars>>

\* a fetchEvents call ends in its catch block: setError, setLoading(false)
EventsResponseFail ==
    \E request \in eventsPending, failure \in EventsFailure :
        /\ error' = EventsErrorMessage(failure)
        /\ loading' = FALSE
        /\ eventsPending' = eventsPending \ {request}
        /\ UNCHANGED <<mounted, idToken, userProfile, schedules, events,
                       schedulesPending, issued, profileLoads, lastPass, raced>>
        /\ UNCHANGED <<evalVars, authVars, pageVars>>

Next ==
    \/ Mount
    \/ AuthTokenSet
    \/ AuthProfileSet
    \/ SchedulesResponseOk
    \/ SchedulesResponseFail
    \/ EventsResponseOk
    \/ EventsResponseFail

Spec == Init /\ [][Next]_vars

-----------------------------------------------------------------------------
(* SpecForm: the create / edit form of the Events component                *)

\* event.created_by of the event with this event_id
CreatedBy(event_id) == IF event_id % 2 = 1 THEN UserId ELSE UserId + 1

\* formatForInput(isoString): the local date and time, to the minute
formatForInput(t) ==
    IF t \in Instants THEN "2025-01-01T0" \o ToString(t) \o ":00"
    ELSE "NaN-NaN-NaNTNaN:NaN"

\* what the user types into a field of the form
Typed == [title |-> "Game night", start_time |-> "2025-01-01T00:00",
          end_time |-> "2025-01-01T01:00"]

\* the form fields marked `required`
RequiredFields == {"title", "start_time", "end_time"}

\* the browser lets the form be submitted: every required field has a value
Submittable == \A name \in RequiredFields : formData[name] # ""

\* the ways handleCreateEvent and handleUpdateEvent end in their catch block
SubmitFailure == {"detail", "no detail", "network error"}

\* error.message || 'Failed to create event'  /  || 'Failed to update event'
SubmitErrorMessage(kind, failure) ==
    CASE failure = "detail" -> "Event overlaps an existing one"
      [] failure = "network error" -> "Failed to fetch"
      [] OTHER -> IF kind = "create" THEN "Failed to create event"
                  ELSE "Failed to update event"

\* the message handleCreateEvent / handleUpdateEvent passes to setSuccess
SuccessMessage(kind) ==
    IF kind = "create" THEN "Event created successfully!"
    ELSE "Event updated successfully!"

\* resetForm(), but for its setError(null): the callers set error themselves
resetForm ==
    /\ formData' = EmptyForm
    /\ editingEvent' = NullObject
    /\ showCreateForm' = FALSE
    /\ success' = Null

\* the page some time after it was mounted: signed in or not, no schedule entries,
\* the events of the server loaded when there is a token, the form closed
InitForm ==
    /\ evalEvent = NullObject
    /\ evalSchedules = <<>>
    /\ evalResult = NullObject
    /\ evalPc = "off"
    /\ idToken \in {Null, Token}
    /\ userProfile = [user_id |-> UserId, object |-> 0]
    /\ mounted = TRUE
    /\ schedules = [list |-> <<>>, initial |-> (idToken = Null)]
    /\ events = IF idToken = Null THEN <<>>
                ELSE AnnotatePage(ServerEvents, [id |-> 2, schedules |-> schedules])
    /\ loading = (idToken = Null)
    /\ error = Null
    /\ schedulesPending = 0
    /\ eventsPending = {}
    /\ issued = IF idToken = Null THEN 0 ELSE 2
    /\ profileLoads = 0
    /\ lastPass = NullObject
    /\ raced = FALSE
    /\ EventsPageShown
    /\ PagesUnmounted

\* the header button: resetForm(); setShowCreateForm(true)
HeaderClick ==
    /\ formData' = EmptyForm
    /\ editingEvent' = NullObject
    /\ success' = Null
    /\ showCreateForm' = TRUE
    /\ error' = Null
    /\ lastOk' = "none"
    /\ UNCHANGED <<submitsPending, submits>>
    /\ UNCHANGED <<mounted, idToken, userProfile, schedules, events, loading,
                   schedulesPending, eventsPending, issued, profileLoads, lastPass,
                   raced>>
    /\ UNCHANGED <<evalVars, authVars, otherPagesVars>>

\* handleEditClick that leaves the form as it is (no setShowCreateForm(true))
handleEditClickFormLeft ==
    \E i \in 1..Len(events) :
        /\ EventsView = "table"
        /\ userProfile # NullObject
        /\ CreatedBy(events[i].event_id) = userProfile.user_id
        /\ editingEvent' = events[i]
        /\ formData' = [EmptyForm EXCEPT
                            !.title = "Event " \o ToString(events[i].event_id),
                            !.start_time = formatForInput(events[i].start_time),
                            !.end_time = formatForInput(events[i].end_time)]
        /\ lastOk' = "none"
        /\ UNCHANGED <<showCreateForm, success, submitsPending, submits>>
        /\ UNCHANGED <<eventsVars, evalVars, authVars, otherPagesVars>>

\* the Edit button in the row of an event the user created: handleEditClick(event)
handleEditClick ==
    \E i \in 1..Len(events) :
        /\ EventsView = "table"
        /\ userProfile # NullObject
        /\ CreatedBy(events[i].event_id) = userProfile.user_id
        /\ editingEvent' = events[i]
        /\ formData' = [EmptyForm EXCEPT
                            !.title = "Event " \o ToString(events[i].event_id),
                            !.start_time = formatForInput(events[i].start_time),
                            !.end_time = formatForInput(events[i].end_time)]
        /\ showCreateForm' = TRUE
        /\ lastOk' = "none"
        /\ UNCHANGED <<success, submitsPending, submits>>
        /\ UNCHANGED <<eventsVars, evalVars, authVars, otherPagesVars>>

\* the Cancel button of the form: resetForm
CancelClick ==
    /\ showCreateForm
    /\ resetForm
    /\ error' = Null
    /\ lastOk' = "none"
    /\ UNCHANGED <<submitsPending, submits>>
    /\ UNCHANGED <<mounted, idToken, userProfile, schedules, events, loading,
                   schedulesPending, eventsPending, issued, profileLoads, lastPass,
                   raced>>
    /\ UNCHANGED <<evalVars, authVars, otherPagesVars>>

\* the user changes a field of the form
handleInputChange ==
    \E name \in RequiredFields : \E value \in {"", Typed[name]} :
        /\ showCreateForm
        /\ formData[name] # value
        /\ formData' = [formData EXCEPT ![name] = value]
        /\ lastOk' = "none"
        /\ UNCHANGED <<showCreateForm, editingEvent, success, submitsPending,
                       submits>>
        /\ UNCHANGED <<eventsVars, evalVars, authVars, otherPagesVars>>

\* the form is submitted while editingEvent is null: handleCreateEvent up to its
\* await, or to its return at the token guard
handleCreateEvent ==
    /\ showCreateForm /\ editingEvent = NullObject /\ Submittable
    /\ submits < MaxSubmits
    /\ submits' = submits + 1
    /\ IF idToken = Null
       THEN /\ error' = "You must be logged in to create events"
            /\ UNCHANGED submitsPending
       ELSE /\ error' = Null
            /\ submitsPending' = submitsPending (+) SetToBag({[kind |-> "create"]})
    /\ lastOk' = "none"
    /\ UNCHANGED <<showCreateForm, editingEvent, formData, success>>
    /\ UNCHANGED <<mounted, idToken, userProfile, schedules, events, loading,
                   schedulesPending, eventsPending, issued, profileLoads, lastPass,
                   raced>>
    /\ UNCHANGED <<evalVars, authVars, otherPagesVars>>

\* the form is submitted while editingEvent is set: handleUpdateEvent up to its
\* await, or to its return at the guard
handleUpdateEvent ==
    /\ showCreateForm /\ editingEvent # NullObject /\ Submittable
    /\ submits < MaxSubmits
    /\ submits' = submits + 1
    /\ IF idToken = Null \/ editingEvent = NullObject
       THEN /\ error' = "You must be logged in to update events"
            /\ UNCHANGED submitsPending
       ELSE /\ error' = Null
            /\ submitsPending' = submitsPending (+) SetToBag({[kind |-> "update"]})
    /\ lastOk' = "none"
    /\ UNCHANGED <<showCreateForm, editingEvent, formData, success>>
    /\ UNCHANGED <<mounted, idToken, userProfile, schedules, events, loading,
                   schedulesPending, eventsPending, issued, profileLoads, lastPass,
                   raced>>
    /\ UNCHANGED <<evalVars, authVars, otherPagesVars>>

\* a handleCreateEvent / handleUpdateEvent call gets an OK response:
\* setSuccess(message); resetForm(); fetchEvents(). The state updates of one
\* handler are applied together, the last value given to a state winning
SubmitResponseOk ==
    \E t \in BagToSet(submitsPending) :
        /\ submitsPending' = submitsPending (-) SetToBag({t})
        /\ resetForm
        /\ IF idToken # Null THEN RunEventsEffect(idToken, schedules)
           ELSE error' = Null /\ UNCHANGED <<eventsPending, issued, loading>>
        /\ lastOk' = t.kind
        /\ UNCHANGED submits
        /\ UNCHANGED <<mounted, idToken, userProfile, schedules, events,
                       schedulesPending, profileLoads, lastPass, raced>>
        /\ UNCHANGED <<evalVars, authVars, otherPagesVars>>

\* a handleCreateEvent / handleUpdateEvent call ends in its catch block: setError
SubmitResponseFail ==
    \E t \in BagToSet(submitsPending), failure \in SubmitFailure :
        /\ submitsPending' = submitsPending (-) SetToBag({t})
        /\ error' = SubmitErrorMessage(t.kind, failure)
        /\ lastOk' = "none"
        /\ UNCHANGED <<showCreateForm, editingEvent, formData, success, submits>>
        /\ UNCHANGED <<mounted, idToken, userProfile, schedules, events, loading,
                       schedulesPending, eventsPending, issued, profileLoads,
                       lastPass, raced>>
        /\ UNCHANGED <<evalVars, authVars, otherPagesVars>>

NextForm ==
    \/ HeaderClick
    \/ handleEditClick
    \/ CancelClick
    \/ handleInputChange
    \/ handleCreateEvent
    \/ handleUpdateEvent
    \/ SubmitResponseOk
    \/ SubmitResponseFail
    \/ EventsResponseOk
    \/ EventsResponseFail

SpecForm == InitForm /\ [][NextForm]_vars

-----------------------------------------------------------------------------
(* SpecFeed: the pagination of the Feed component                          *)

\* limit=10 of GET /api/posts, and the step of loadMore
Limit == 10

\* the page the server answers GET /api/posts?skip=offset&limit=10 with: a full
\* page, named by its offset, or nothing past the last page
ServerPage(offset) ==
    IF offset \div Limit < MaxFeedPages THEN <<offset>> ELSE <<>>

\* the JSON bodies of an OK response to GET /api/posts?skip=offset: the composite
\* service's object with has_more, or the bare array of the posts service
PostsBody(offset) ==
    {[kind |-> "object", items |-> ServerPage(offset), hasMoreGiven |-> TRUE,
      has_more |-> (offset + Limit < MaxFeedPages * Limit)],
     [kind |-> "array", items |-> ServerPage(offset), hasMoreGiven |-> FALSE,
      has_more |-> FALSE]}

\* data.has_more !== undefined ? data.has_more : (postsList.length >= 10)
HasMoreOf(data) ==
    IF data.hasMoreGiven THEN data.has_more
    ELSE Len(data.items) > 0

\* fetchPosts(offset) up to its await, called by the operation numbered id
fetchPosts(id, offset) ==
    IF idToken = Null
    THEN UNCHANGED <<feedLoading, feedError, feedPending>>
    ELSE /\ feedLoading' = TRUE
         /\ feedError' = Null
         /\ feedPending' = (feedPending \ {t \in feedPending : t.id = id})
                              \cup {[id |-> id, kind |-> "fetch", offset |-> offset]}

feedFrame == UNCHANGED <<evalVars, eventsVars, authVars, formVars, searchVars,
                         profileVars>>

\* Feed before its first render, the user signed in
InitFeed ==
    /\ evalEvent = NullObject
    /\ evalSchedules = <<>>
    /\ evalResult = NullObject
    /\ evalPc = "off"
    /\ idToken = Token
    /\ userProfile = [user_id |-> UserId, object |-> 0]
    /\ EventsUnmounted
    /\ PagesUnmounted
    /\ currentUser = FirebaseUser
    /\ authLoading = FALSE
    /\ firebaseUser = FirebaseUser
    /\ authNotice = FALSE
    /\ authTasks = EmptyBag
    /\ authOps = 0
    /\ currentPage = "feed"
    /\ loginError = ""
    /\ sent = {}
    /\ refused = {}
    /\ loggedOut = FALSE
    /\ flowEnd = NoFlow

\* Feed has not rendered yet
FeedNotRendered ==
    /\ feedOps = 0 /\ feedPending = {} /\ feedLoading /\ posts = <<>>
    /\ feedError = Null

\* first render of Feed: the effect calls fetchPosts(0)
FeedMount ==
    /\ FeedNotRendered
    /\ idToken # Null
    /\ fetchPosts(0, 0)
    /\ UNCHANGED <<posts, skip, hasMore, feedOps, feedDisturbed>>
    /\ feedFrame

\* a fetchPosts call gets an OK response: setPosts, setHasMore, setLoading(false)
PostsResponseOk ==
    \E t \in feedPending : \E data \in PostsBody(t.offset) :
        /\ t.kind = "fetch"
        /\ posts' = IF t.offset = 0 THEN data.items ELSE posts \o data.items
        /\ hasMore' = HasMoreOf(data)
        /\ feedLoading' = FALSE
        /\ feedPending' = feedPending \ {t}
        /\ UNCHANGED <<skip, feedError, feedOps, feedDisturbed>>
        /\ feedFrame

\* a fetchPosts call ends in its catch block: setError, setLoading(false)
PostsResponseFail ==
    \E t \in feedPending :
        /\ t.kind = "fetch"
        /\ feedError' = "Failed to fetch posts"
        /\ feedLoading' = FALSE
        /\ feedPending' = feedPending \ {t}
        /\ feedDisturbed' = TRUE
        /\ UNCHANGED <<posts, skip, hasMore, feedOps>>
        /\ feedFrame

\* the Load More button, shown below the posts while hasMore
loadMore ==
    /\ Len(posts) > 0 /\ hasMore
    /\ feedOps < MaxFeedOps
    /\ feedOps' = feedOps + 1
    /\ skip' = skip + Limit
    /\ fetchPosts(feedOps', skip')
    /\ feedDisturbed' = (feedDisturbed \/ feedPending # {})
    /\ UNCHANGED <<posts, hasMore>>
    /\ feedFrame

\* the create form is submitted: handleCreatePost up to its await
handleCreatePost ==
    /\ feedOps < MaxFeedOps
    /\ idToken # Null
    /\ ~FeedNotRendered
    /\ feedOps' = feedOps + 1
    /\ feedError' = Null
    /\ feedPending' = feedPending \cup {[id |-> feedOps', kind |-> "create", offset |-> 0]}
    /\ feedDisturbed' = (feedDisturbed \/ feedPending # {})
    /\ UNCHANGED <<posts, skip, hasMore, feedLoading>>
    /\ feedFrame

\* handleCreatePost gets an OK response: the form is cleared and closed, then
\* fetchPosts(0)
CreatePostResponseOk ==
    \E t \in feedPending :
        /\ t.kind = "create"
        /\ fetchPosts(t.id, 0)
        /\ UNCHANGED <<posts, skip, hasMore, feedOps, feedDisturbed>>
        /\ feedFrame

\* handleCreatePost ends in its catch block: setError
CreatePostResponseFail ==
    \E t \in feedPending :
        /\ t.kind = "create"
        /\ feedError' = "Failed to create post"
        /\ feedPending' = feedPending \ {t}
        /\ feedDisturbed' = TRUE
        /\ UNCHANGED <<posts, skip, hasMore, feedLoading, feedOps>>
        /\ feedFrame

NextFeed ==
    \/ FeedMount
    \/ PostsResponseOk
    \/ PostsResponseFail
    \/ loadMore
    \/ handleCreatePost
    \/ CreatePostResponseOk
    \/ CreatePostResponseFail

SpecFeed == InitFeed /\ [][NextFeed]_vars

-----------------------------------------------------------------------------
(* SpecSearch: the user search of the Friends component                    *)

\* what the user can have in the search box
Queries == {"", " ", "a", "ab"}

\* query.trim()
Trim(query) == IF query = " " THEN "" ELSE query

\* the users GET /api/users/search?q=query finds
UsersMatching(query) ==
    CASE Trim(query) = "a" -> <<"abby", "alice">>
      [] Trim(query) = "ab" -> <<"abby">>
      [] OTHER -> <<>>

\* the JSON bodies of an OK response to the search for `query`
SearchBody(query) ==
    {[kind |-> "array", items |-> UsersMatching(query)],
     [kind |-> "object", items |-> <<>>]}

\* Array.isArray(data) ? data : []
SearchListOf(data) == IF data.kind = "array" THEN data.items ELSE <<>>

searchFrame == UNCHANGED <<evalVars, eventsVars, authVars, formVars, feedVars,
                           profileVars>>

\* Friends right after its first render, the user signed in: the debounced effect
\* has armed its timer
InitSearch ==
    /\ evalEvent = NullObject
    /\ evalSchedules = <<>>
    /\ evalResult = NullObject
    /\ evalPc = "off"
    /\ idToken = Token
    /\ userProfile = [user_id |-> UserId, object |-> 0]
    /\ EventsUnmounted
    /\ FormClosed /\ FeedUnmounted /\ ProfileUnmounted
    /\ activeTab = "search"
    /\ searchQuery = ""
    /\ searchResults = <<>>
    /\ searchTimer = TRUE
    /\ searchPending = {}
    /\ searchIssued = 0
    /\ lastAnswer = <<>>
    /\ EventsPageShown

\* the user changes the search box: setSearchQuery; the effect clears its timer
\* and arms a new one
SearchInput ==
    \E query \in Queries :
        /\ activeTab = "search"
        /\ query # searchQuery
        /\ searchQuery' = query
        /\ searchTimer' = TRUE
        /\ UNCHANGED <<activeTab, searchResults, searchPending, searchIssued,
                       lastAnswer>>
        /\ searchFrame

\* a tab button: setActiveTab; the effect clears its timer and arms a new one
TabClick ==
    \E tab \in {"search", "pending", "friends"} :
        /\ tab # activeTab
        /\ activeTab' = tab
        /\ searchTimer' = TRUE
        /\ UNCHANGED <<searchQuery, searchResults, searchPending, searchIssued,
                       lastAnswer>>
        /\ searchFrame

\* 300 ms have passed since the effect ran: searchUsers(searchQuery) up to its
\* await when the search tab shows a query, setSearchResults([]) otherwise
SearchTimerFires ==
    /\ searchTimer
    /\ searchTimer' = FALSE
    /\ IF activeTab = "search" /\ Trim(searchQuery) # ""
       THEN IF idToken = Null \/ Trim(searchQuery) = ""
            THEN /\ searchResults' = <<>>
                 /\ UNCHANGED <<searchPending, searchIssued, lastAnswer>>
            ELSE /\ searchIssued < MaxSearches
                 /\ searchIssued' = searchIssued + 1
                 /\ searchPending' =
                        searchPending \cup {[id |-> searchIssued', query |-> searchQuery]}
                 /\ UNCHANGED <<searchResults, lastAnswer>>
       ELSE /\ searchResults' = <<>>
            /\ UNCHANGED <<searchPending, searchIssued, lastAnswer>>
    /\ UNCHANGED <<activeTab, searchQuery>>
    /\ searchFrame

\* a searchUsers call gets an OK response: setSearchResults
SearchResponseOk ==
    \E t \in searchPending : \E data \in SearchBody(t.query) :
        /\ searchResults' = SearchListOf(data)
        /\ searchPending' = searchPending \ {t}
        /\ lastAnswer' = IF t.id = searchIssued THEN SearchListOf(data) ELSE lastAnswer
        /\ UNCHANGED <<activeTab, searchQuery, searchTimer, searchIssued>>
        /\ searchFrame

\* a searchUsers call ends in its catch block: setError, setSearchResults([])
SearchResponseFail ==
    \E t \in searchPending :
        /\ searchResults' = <<>>
        /\ searchPending' = searchPending \ {t}
        /\ lastAnswer' = IF t.id = searchIssued THEN <<>> ELSE lastAnswer
        /\ UNCHANGED <<activeTab, searchQuery, searchTimer, searchIssued>>
        /\ searchFrame

NextSearch ==
    \/ SearchInput
    \/ TabClick
    \/ SearchTimerFires
    \/ SearchResponseOk
    \/ SearchResponseFail

SpecSearch == InitSearch /\ [][NextSearch]_vars

-----------------------------------------------------------------------------
(* SpecProfile: the loading of the Profile component                       *)

\* the sections of the page
Sections == {"profile", "schedules", "interests"}

\* what Profile renders: one of its three early returns, or the page
ProfileView ==
    IF currentUser = NullObject THEN "Please log in to view your profile."
    ELSE IF profileLoading /\ userProfile = NullObject /\ idToken # Null
         THEN "Loading profile..."
    ELSE IF ~profileLoading /\ userProfile = NullObject /\ idToken # Null
         THEN "Failed to load profile"
    ELSE "page"

\* profileData as fetchProfile fills it from userProfile
ProfileDataOf(prof) ==
    [first_name |-> "Ada", last_name |-> "Lovelace", username |-> "ada",
     email |-> "ada@example.org", profile_picture |-> ""]

\* fetchProfile() in a render with token tok and profile prof: the value it
\* leaves in loading
fetchProfile(tok, prof) ==
    IF tok = Null THEN FALSE
    ELSE IF prof # NullObject THEN FALSE
    ELSE TRUE

\* the effect on [idToken, userProfile, fetchProfile, fetchSchedules,
\* fetchInterests] in a render with token tok and profile prof
ProfileEffect(tok, prof) ==
    IF tok # Null /\ prof # NullObject
    THEN /\ profileLoading' = fetchProfile(tok, prof)
         /\ profileData' = ProfileDataOf(prof)
         /\ profilePending' = profilePending \cup {"schedules", "allInterests"}
    ELSE UNCHANGED <<profileLoading, profileData, profilePending>>

profileFrame == UNCHANGED <<evalVars, eventsOwnVars, authVars, formVars, feedVars,
                            searchVars>>

\* the App shows the Profile page of a signed-in user who has no profile object
\* yet; GET /api/users/me is awaited when there is a token
InitProfile ==
    /\ evalEvent = NullObject
    /\ evalSchedules = <<>>
    /\ evalResult = NullObject
    /\ evalPc = "off"
    /\ idToken \in {Null, Token}
    /\ userProfile = NullObject
    /\ EventsUnmounted
    /\ FormClosed /\ FeedUnmounted /\ SearchUnmounted
    /\ profileMounted = FALSE
    /\ profileLoading = TRUE
    /\ profileData = EmptyProfileData
    /\ activeSection = "profile"
    /\ profileLists = {}
    /\ profilePending = {}
    /\ mePending \in IF idToken = Null THEN {0} ELSE 1..MaxMeRequests
    /\ currentUser = FirebaseUser
    /\ authLoading = FALSE
    /\ firebaseUser = FirebaseUser
    /\ authNotice = FALSE
    /\ authTasks = EmptyBag
    /\ authOps = 0
    /\ currentPage = "profile"
    /\ loginError = ""
    /\ sent = {}
    /\ refused = {}
    /\ loggedOut = FALSE
    /\ flowEnd = NoFlow

\* first render of Profile: the effect runs
ProfileMount ==
    /\ ~profileMounted
    /\ profileMounted' = TRUE
    /\ ProfileEffect(idToken, userProfile)
    /\ UNCHANGED <<idToken, userProfile, activeSection, profileLists, mePending>>
    /\ profileFrame

\* the AuthProvider sets idToken and calls fetchUserProfile, from the observer of
\* onAuthStateChanged and from a sign-in function: the effect runs again
ProfileTokenSet ==
    /\ idToken = Null
    /\ idToken' = Token
    /\ mePending' \in 1..MaxMeRequests
    /\ IF profileMounted THEN ProfileEffect(Token, userProfile)
       ELSE UNCHANGED <<profileLoading, profileData, profilePending>>
    /\ UNCHANGED <<userProfile, profileMounted, activeSection, profileLists>>
    /\ profileFrame

\* GET /api/users/me answers OK: setUserProfile, and the effect runs again
MeResponseOk ==
    /\ mePending > 0
    /\ mePending' = mePending - 1
    /\ userProfile' = [user_id |-> UserId, object |-> mePending]
    /\ IF profileMounted THEN ProfileEffect(idToken, userProfile')
       ELSE UNCHANGED <<profileLoading, profileData, profilePending>>
    /\ UNCHANGED <<idToken, profileMounted, activeSection, profileLists>>
    /\ profileFrame

\* GET /api/users/me answers with an error or fetch rejects: fetchUserProfile
\* logs it and returns; nothing calls it again
MeResponseFail ==
    /\ mePending > 0
    /\ mePending' = mePending - 1
    /\ UNCHANGED <<idToken, userProfile, profileMounted, profileLoading,
                   profileData, activeSection, profileLists, profilePending>>
    /\ profileFrame

\* a request of fetchSchedules or fetchInterests is answered: an OK answer sets the
\* list, and the answer about all interests is followed by the request for the
\* user's
ProfileResponse ==
    \E t \in profilePending, ok \in BOOLEAN :
        /\ profileLists' = IF ok THEN profileLists \cup {t} ELSE profileLists
        /\ profilePending' = (profilePending \ {t}) \cup
                                (IF t = "allInterests" THEN {"userInterests"} ELSE {})
        /\ UNCHANGED <<idToken, userProfile, profileMounted, profileLoading,
                       profileData, activeSection, mePending>>
        /\ profileFrame

\* a section button of the page
SectionClick ==
    \E section \in Sections :
        /\ profileMounted /\ ProfileView = "page"
        /\ section # activeSection
        /\ activeSection' = section
        /\ UNCHANGED <<idToken, userProfile, profileMounted, profileLoading,
                       profileData, profileLists, profilePending, mePending>>
        /\ profileFrame

NextProfile ==
    \/ ProfileMount
    \/ ProfileTokenSet
    \/ MeResponseOk
    \/ MeResponseFail
    \/ ProfileResponse
    \/ SectionClick

\* the browser runs a first render, and every request ends with an answer or an
\* error
SpecProfile ==
    /\ InitProfile
    /\ [][NextProfile]_vars
    /\ WF_vars(ProfileMount)
    /\ WF_vars(MeResponseOk \/ MeResponseFail)
    /\ WF_vars(ProfileResponse)

-----------------------------------------------------------------------------
(* SpecAuth: the AuthProvider, the App shell and the components' requests  *)

\* type Page
Pages == {"home", "feed", "events", "profile"}

\* the profile object GET /api/users/me answers with
Profile == [user_id |-> UserId, object |-> 0]

\* an async function awaiting the promise `pc`; caller is "Login" while the Login
\* instance that called it is mounted, "gone" once that instance is unmounted
Task(kind, pc, caller) == [kind |-> kind, pc |-> pc, caller |-> caller]

Awaiting(t) == BagIn(t, authTasks)
Started(t) == authTasks (+) SetToBag({t})
Ended(t) == authTasks (-) SetToBag({t})
Moved(t, u) == (authTasks (-) SetToBag({t})) (+) SetToBag({u})

\* the sign-in and sign-up calls in flight
Flows ==
    {t \in BagToSet(authTasks) :
        t.kind \in {"signInWithEmail", "signUpWithEmail", "signInWithGoogle"}}

\* the Login form has its inputs and buttons disabled: its own loading state
LoginBusy == \E t \in BagToSet(authTasks) : t.caller = "Login"

\* the bag of tasks after the Login instance has been unmounted
LoginUnmounted(bag) ==
    IF \E t \in BagToSet(bag) : t.caller = "Login"
    THEN LET t == CHOOSE t \in BagToSet(bag) : t.caller = "Login"
         IN  (bag (-) SetToBag({t})) (+) SetToBag({[t EXCEPT !.caller = "gone"]})
    ELSE bag

\* the errors the Firebase SDK rejects a sign-in, a sign-up or a token request with
NetworkFailure ==
    [code |-> "auth/network-request-failed",
     message |-> "Firebase: Error (auth/network-request-failed)."]

FirebaseErrors(kind) ==
    IF kind = "signInWithEmail"
    THEN {[code |-> "auth/wrong-password",
           message |-> "Firebase: Error (auth/wrong-password)."], NetworkFailure}
    ELSE IF kind = "signUpWithEmail"
    THEN {[code |-> "auth/email-already-in-use",
           message |-> "Firebase: Error (auth/email-already-in-use)."], NetworkFailure}
    ELSE {[code |-> "auth/popup-closed-by-user",
           message |-> "Firebase: Error (auth/popup-closed-by-user)."], NetworkFailure}

\* the error codes that start with 'auth/'
AuthCodes == {"auth/user-not-found", "auth/wrong-password", "auth/invalid-email",
              "auth/user-disabled", "auth/email-already-in-use",
              "auth/weak-password", "auth/network-request-failed",
              "auth/popup-closed-by-user"}

\* an Error object thrown by the code itself: it has no code property
PlainError(message) == [code |-> Undefined, message |-> message]

\* the catch block of signInWithEmail: the message of the Error it throws
SignInErrorMessage(err) ==
    CASE err.code = "auth/user-not-found" ->
            "No account found with this email. Please sign up first."
      [] err.code = "auth/wrong-password" -> "Incorrect password. Please try again."
      [] err.code = "auth/invalid-email" -> "Invalid email address."
      [] err.code = "auth/user-disabled" -> "This account has been disabled."
      [] err.code \in AuthCodes -> err.message
      [] OTHER -> "Failed to sign in. Please try again."

\* the outer catch block of signUpWithEmail: the message of the Error it throws
SignUpErrorMessage(err) ==
    CASE err.code = "auth/email-already-in-use" ->
            "An account with this email already exists. Please sign in instead."
      [] err.code = "auth/invalid-email" -> "Invalid email address."
      [] err.code = "auth/weak-password" ->
            "Password is too weak. Please use a stronger password."
      [] err.code \in AuthCodes -> err.message
      [] OTHER -> "Failed to create account. Please try again."

\* the catch block of signInWithGoogle: the message of the Error it throws
GoogleErrorMessage(err) ==
    IF err.code \in AuthCodes THEN "Authentication failed: " \o err.message
    ELSE "Failed to sign in. Please try again."

\* the Error that the call `kind` throws to its caller in Login when err reaches
\* its catch block
Thrown(kind, err) ==
    IF kind = "signInWithEmail" THEN SignInErrorMessage(err)
    ELSE IF kind = "signUpWithEmail" THEN SignUpErrorMessage(err)
    ELSE GoogleErrorMessage(err)

\* token || idToken, for the optional token argument of syncUserToBackend and
\* fetchUserProfile
TokenToUse(token) == IF token # Undefined /\ token # Null THEN token ELSE idToken

\* the request a function issues with the token tok, after its guard on the token
BearerRequest(api, tok) ==
    IF tok = Null THEN {} ELSE {[api |-> api, token |-> tok]}

\* what App renders inside its root
AppView ==
    IF authLoading THEN "Loading..."
    ELSE IF currentUser = NullObject THEN "Login"
    ELSE "main"

\* the page component for currentPage in the main content
PageComponent(page) ==
    CASE page = "feed" -> {"Feed"}
      [] page = "events" -> {"Events"}
      [] page = "profile" -> {"Profile"}
      [] OTHER -> {}

\* AppRendered without the early return of <Login />: the page is rendered for
\* whoever is there
AppRenderedUngated ==
    IF authLoading THEN {} ELSE PageComponent(currentPage)

\* the components App renders
AppRendered ==
    IF authLoading THEN {}
    ELSE IF currentUser = NullObject THEN {"Login"}
    ELSE PageComponent(currentPage)

\* setIdToken(tok) gives fetchUserProfile a new identity when the token changes:
\* the effect unsubscribes its observer and subscribes a new one, which the SDK
\* then calls with auth.currentUser
Resubscribed(tok) == authNotice \/ tok # idToken

authFrame == UNCHANGED <<evalVars, eventsOwnVars, pageVars>>

InitAuth ==
    /\ evalEvent = NullObject
    /\ evalSchedules = <<>>
    /\ evalResult = NullObject
    /\ evalPc = "off"
    /\ idToken = Null
    /\ userProfile = NullObject
    /\ EventsUnmounted
    /\ PagesUnmounted
    /\ currentUser = NullObject
    /\ authLoading = TRUE
    /\ firebaseUser \in {NullObject, FirebaseUser}
    /\ authNotice = TRUE
    /\ authTasks = EmptyBag
    /\ authOps = 0
    /\ currentPage = "feed"
    /\ loginError = ""
    /\ sent = {}
    /\ refused = {}
    /\ loggedOut = FALSE
    /\ flowEnd = NoFlow

\* the SDK calls the observer given to onAuthStateChanged: the callback up to its
\* first await, or to its end when nobody is signed in
AuthStateChanged ==
    /\ authNotice
    /\ currentUser' = firebaseUser
    /\ IF firebaseUser # NullObject
       THEN /\ authTasks' = LoginUnmounted(authTasks)
                               (+) SetToBag({Task("listener", "getIdTokenResult", "SDK")})
            /\ authNotice' = FALSE
            /\ loginError' = IF AppView = "Login" THEN "" ELSE loginError
            /\ UNCHANGED <<idToken, userProfile, authLoading>>
       ELSE /\ idToken' = Null
            /\ userProfile' = NullObject
            /\ authLoading' = FALSE
            /\ authNotice' = (idToken # Null)
            /\ UNCHANGED <<authTasks, loginError>>
    /\ currentPage' = IF /\ currentUser' # currentUser
                         /\ currentUser' # NullObject
                         /\ currentPage = "home"
                      THEN "feed" ELSE currentPage
    /\ UNCHANGED <<firebaseUser, authOps, sent, refused, loggedOut>>
    /\ UNCHANGED flowEnd
    /\ authFrame

\* user.getIdTokenResult() settles in the observer callback: setIdToken and the
\* call of fetchUserProfile(token) up to its fetch, or the catch block and
\* setLoading(false)
ListenerToken ==
    LET t == Task("listener", "getIdTokenResult", "SDK")
    IN  /\ Awaiting(t)
        /\ \/ /\ idToken' = Token
              /\ authNotice' = Resubscribed(Token)
              /\ authTasks' = Moved(t, Task("listener", "fetchUserProfile", "SDK"))
              /\ sent' = sent \cup BearerRequest("GET /api/users/me",
                                                 TokenToUse(Token))
              /\ UNCHANGED authLoading
           \/ /\ authTasks' = Ended(t)
              /\ authLoading' = FALSE
              /\ UNCHANGED <<idToken, authNotice, sent>>
        /\ UNCHANGED <<userProfile, currentUser, firebaseUser, authOps, currentPage,
                       loginError, refused, loggedOut>>
        /\ UNCHANGED flowEnd
        /\ authFrame

\* the fetch of fetchUserProfile settles in the observer callback:
\* setUserProfile(profile) on an OK response, then setLoading(false)
ListenerProfile ==
    LET t == Task("listener", "fetchUserProfile", "SDK")
    IN  /\ Awaiting(t)
        /\ \E ok \in BOOLEAN :
              userProfile' = IF ok THEN Profile ELSE userProfile
        /\ authLoading' = FALSE
        /\ authTasks' = Ended(t)
        /\ UNCHANGED <<idToken, currentUser, firebaseUser, authNotice, authOps,
                       currentPage, loginError, sent, refused, loggedOut>>
        /\ UNCHANGED flowEnd
        /\ authFrame

\* Login.handleSubmit up to the first await of signInWithEmail or
\* signUpWithEmail, or to its return when the form is not filled in
LoginSubmit ==
    /\ AppView = "Login" /\ ~LoginBusy
    /\ authOps < MaxAuthOps
    /\ \E isSignUp \in BOOLEAN, form \in {"complete", "incomplete", "short password"} :
          IF form = "complete" \/ (form = "short password" /\ ~isSignUp)
          THEN /\ loginError' = ""
               /\ authTasks' =
                     Started(Task(IF isSignUp THEN "signUpWithEmail"
                                  ELSE "signInWithEmail", "firebase", "Login"))
               /\ authOps' = authOps + 1
               /\ loggedOut' = FALSE
               /\ flowEnd' = NoFlow
          ELSE /\ loginError' =
                     IF ~isSignUp THEN "Please enter email and password"
                     ELSE IF form = "incomplete" THEN "Please fill in all fields"
                     ELSE "Password must be at least 6 characters"
               /\ UNCHANGED <<authTasks, authOps, loggedOut, flowEnd>>
    /\ UNCHANGED <<idToken, userProfile, currentUser, authLoading, firebaseUser,
                   authNotice, currentPage, sent, refused>>
    /\ authFrame

\* Login.handleGoogleSignIn up to the await of signInWithPopup in
\* signInWithGoogle
LoginGoogle ==
    /\ AppView = "Login" /\ ~LoginBusy
    /\ authOps < MaxAuthOps
    /\ loginError' = ""
    /\ authTasks' = Started(Task("signInWithGoogle", "firebase", "Login"))
    /\ authOps' = authOps + 1
    /\ loggedOut' = FALSE
    /\ flowEnd' = NoFlow
    /\ UNCHANGED <<idToken, userProfile, currentUser, authLoading, firebaseUser,
                   authNotice, currentPage, sent, refused>>
    /\ authFrame

\* the call t throws an Error with this message because the step `cause` failed:
\* the catch block of its caller in Login, which sets the error of a Login that is
\* still mounted
FlowThrows(t, cause, message) ==
    /\ authTasks' = Ended(t)
    /\ loginError' = IF t.caller = "Login" THEN message ELSE loginError
    /\ flowEnd' = [kind |-> t.kind, cause |-> cause, outcome |-> "rejected",
                   message |-> message]

\* signInWithEmailAndPassword / createUserWithEmailAndPassword / signInWithPopup
\* settles: the SDK
\* has a new current user and tells the observer, and the call goes on to
\* getIdTokenResult; or the call throws
FlowFirebase ==
    \E t \in Flows :
        /\ t.pc = "firebase"
        /\ \/ /\ firebaseUser' = FirebaseUser
              /\ authNotice' = (authNotice \/ firebaseUser # FirebaseUser)
              /\ authTasks' = Moved(t, [t EXCEPT !.pc = "getIdTokenResult"])
              /\ UNCHANGED <<loginError, flowEnd>>
           \/ /\ \E err \in FirebaseErrors(t.kind) :
                    FlowThrows(t, "firebase", Thrown(t.kind, err))
              /\ UNCHANGED <<firebaseUser, authNotice>>
        /\ UNCHANGED <<idToken, userProfile, currentUser, authLoading, authOps,
                       currentPage, sent, refused, loggedOut>>
        /\ authFrame

\* user.getIdTokenResult() settles in a sign-in or sign-up call:
\* setIdToken(token), then fetchUserProfile(token) or syncUserToBackend(userData,
\* token) up to its fetch; or the call throws
FlowToken ==
    \E t \in Flows :
        /\ t.pc = "getIdTokenResult"
        /\ \/ /\ idToken' = Token
              /\ authNotice' = Resubscribed(Token)
              /\ IF t.kind = "signInWithEmail"
                 THEN /\ authTasks' = Moved(t, [t EXCEPT !.pc = "fetchUserProfile"])
                      /\ sent' = sent \cup BearerRequest("GET /api/users/me",
                                                         TokenToUse(Token))
                 ELSE /\ authTasks' = Moved(t, [t EXCEPT !.pc = "sync"])
                      /\ sent' = sent \cup BearerRequest("POST /api/users/sync",
                                                         TokenToUse(Token))
              /\ UNCHANGED <<loginError, flowEnd>>
           \/ /\ FlowThrows(t, "getIdTokenResult", Thrown(t.kind, NetworkFailure))
              /\ UNCHANGED <<idToken, authNotice, sent>>
        /\ UNCHANGED <<userProfile, currentUser, authLoading, firebaseUser, authOps,
                       currentPage, refused, loggedOut>>
        /\ authFrame

\* the Error the inner catch block of signUpWithEmail throws
SyncFailedMessage ==
    "Account created but failed to sync with backend. Please try logging in."

\* FlowSync in which signInWithGoogle treats a failed sync as signUpWithEmail
\* does: its inner catch throws
FlowSyncGoogleThrows ==
    \E t \in Flows :
        /\ t.pc = "sync"
        /\ \/ /\ authTasks' = Moved(t, [t EXCEPT !.pc = "fetchUserProfile"])
              /\ sent' = sent \cup BearerRequest("GET /api/users/me",
                                                 TokenToUse(Token))
              /\ UNCHANGED <<loginError, flowEnd>>
           \/ /\ FlowThrows(t, "sync", Thrown(t.kind, PlainError(SyncFailedMessage)))
              /\ UNCHANGED sent
        /\ UNCHANGED <<idToken, userProfile, currentUser, authLoading, firebaseUser,
                       authNotice, authOps, currentPage, refused, loggedOut>>
        /\ authFrame

\* the fetch of syncUserToBackend settles: on an OK response
\* fetchUserProfile(tokenToUse) up to its fetch; otherwise syncUserToBackend
\* throws. In signUpWithEmail the inner catch then throws its own Error and the
\* outer catch turns that into the Error the call ends with; in signInWithGoogle
\* the inner catch calls fetchUserProfile(token)
FlowSync ==
    \E t \in Flows :
        /\ t.pc = "sync"
        /\ \/ /\ authTasks' = Moved(t, [t EXCEPT !.pc = "fetchUserProfile"])
              /\ sent' = sent \cup BearerRequest("GET /api/users/me",
                                                 TokenToUse(Token))
              /\ UNCHANGED <<loginError, flowEnd>>
           \/ /\ t.kind = "signUpWithEmail"
              /\ FlowThrows(t, "sync", Thrown(t.kind, PlainError(SyncFailedMessage)))
              /\ UNCHANGED sent
           \/ /\ t.kind = "signInWithGoogle"
              /\ authTasks' = Moved(t, [t EXCEPT !.pc = "fetchUserProfile anyway"])
              /\ sent' = sent \cup BearerRequest("GET /api/users/me",
                                                 TokenToUse(Token))
              /\ UNCHANGED <<loginError, flowEnd>>
        /\ UNCHANGED <<idToken, userProfile, currentUser, authLoading, firebaseUser,
                       authNotice, authOps, currentPage, refused, loggedOut>>
        /\ authFrame

\* the fetch of fetchUserProfile settles in a sign-in or sign-up call:
\* setUserProfile(profile) on an OK response; fetchUserProfile never throws, and
\* the call returns
FlowProfile ==
    \E t \in Flows :
        /\ t.pc \in {"fetchUserProfile", "fetchUserProfile anyway"}
        /\ \E ok \in BOOLEAN :
              userProfile' = IF ok THEN Profile ELSE userProfile
        /\ authTasks' = Ended(t)
        /\ flowEnd' = [kind |-> t.kind,
                       cause |-> IF t.pc = "fetchUserProfile" THEN "none" ELSE "sync",
                       outcome |-> "resolved", message |-> ""]
        /\ UNCHANGED <<idToken, currentUser, authLoading, firebaseUser, authNotice,
                       authOps, currentPage, loginError, sent, refused, loggedOut>>
        /\ authFrame

\* App.handleLogout up to the await of signOut in logout()
HandleLogout ==
    /\ AppView = "main"
    /\ authOps < MaxAuthOps
    /\ authTasks' = Started(Task("logout", "signOut", "App"))
    /\ authOps' = authOps + 1
    /\ UNCHANGED <<idToken, userProfile, currentUser, authLoading, firebaseUser,
                   authNotice, currentPage, loginError, sent, refused, loggedOut>>
    /\ flowEnd' = NoFlow
    /\ authFrame

\* signOut(auth) takes effect inside the SDK, which tells the observer when the
\* current user changed; or signOut rejects and logout() rethrows
LogoutSignOut ==
    LET t == Task("logout", "signOut", "App")
    IN  /\ Awaiting(t)
        /\ \/ /\ firebaseUser' = NullObject
              /\ authNotice' = (authNotice \/ firebaseUser # NullObject)
              /\ authTasks' = Moved(t, Task("logout", "resolved", "App"))
              /\ loggedOut' = TRUE
           \/ /\ authTasks' = Ended(t)
              /\ UNCHANGED <<firebaseUser, authNotice, loggedOut>>
        /\ UNCHANGED <<idToken, userProfile, currentUser, authLoading, authOps,
                       currentPage, loginError, sent, refused>>
        /\ UNCHANGED flowEnd
        /\ authFrame

\* logout() after its await: setIdToken(null); the call returns
LogoutResolved ==
    LET t == Task("logout", "resolved", "App")
    IN  /\ Awaiting(t)
        /\ idToken' = Null
        /\ authNotice' = Resubscribed(Null)
        /\ authTasks' = Ended(t)
        /\ UNCHANGED <<userProfile, currentUser, authLoading, firebaseUser, authOps,
                       currentPage, loginError, sent, refused, loggedOut>>
        /\ UNCHANGED flowEnd
        /\ authFrame

\* a navigation button or the Profile item of the dropdown: setCurrentPage(page)
Navigate ==
    /\ AppView = "main"
    /\ \E page \in Pages \ {currentPage} : currentPage' = page
    /\ UNCHANGED <<idToken, userProfile, currentUser, authLoading, firebaseUser,
                   authNotice, authTasks, authOps, loginError, sent, refused,
                   loggedOut>>
    /\ UNCHANGED flowEnd
    /\ authFrame

\* Events.fetchEvents is called in the render that App shows: its guard on
\* idToken, then its fetch
FetchEventsCalled ==
    /\ "Events" \in AppRendered
    /\ IF idToken = Null
       THEN /\ refused' = refused \cup {"fetchEvents"}
            /\ UNCHANGED sent
       ELSE /\ sent' = sent \cup BearerRequest("GET /api/events", idToken)
            /\ UNCHANGED refused
    /\ UNCHANGED <<idToken, userProfile, currentUser, authLoading, firebaseUser,
                   authNotice, authTasks, authOps, currentPage, loginError, loggedOut>>
    /\ UNCHANGED flowEnd
    /\ authFrame

\* HandleSendRequest without its guard on idToken
HandleSendRequestUnguarded ==
    /\ AppView = "main"
    /\ sent' = sent \cup {[api |-> "POST /api/friends/requests", token |-> idToken]}
    /\ UNCHANGED refused
    /\ UNCHANGED <<idToken, userProfile, currentUser, authLoading, firebaseUser,
                   authNotice, authTasks, authOps, currentPage, loginError, loggedOut>>
    /\ UNCHANGED flowEnd
    /\ authFrame

\* Friends.handleSendRequest is called, Friends being mounted somewhere in the
\* main view: its guard on idToken, then its fetch
HandleSendRequest ==
    /\ AppView = "main"
    /\ IF idToken = Null
       THEN /\ refused' = refused \cup {"handleSendRequest"}
            /\ UNCHANGED sent
       ELSE /\ sent' = sent \cup BearerRequest("POST /api/friends/requests", idToken)
            /\ UNCHANGED refused
    /\ UNCHANGED <<idToken, userProfile, currentUser, authLoading, firebaseUser,
                   authNotice, authTasks, authOps, currentPage, loginError, loggedOut>>
    /\ UNCHANGED flowEnd
    /\ authFrame

NextAuth ==
    \/ AuthStateChanged
    \/ ListenerToken
    \/ ListenerProfile
    \/ LoginSubmit
    \/ FlowFirebase
    \/ FlowToken
    \/ FlowSync
    \/ FlowProfile
    \/ HandleLogout
    \/ LogoutSignOut
    \/ LogoutResolved
    \/ Navigate
    \/ FetchEventsCalled
    \/ HandleSendRequest

SpecAuth == InitAuth /\ [][NextAuth]_vars

-----------------------------------------------------------------------------
(* SpecSignIn: the three sign-in and sign-up calls of the AuthProvider,    *)
(* with the observer of onAuthStateChanged and logout                      *)

NextSignIn ==
    \/ AuthStateChanged
    \/ ListenerToken
    \/ ListenerProfile
    \/ LoginSubmit
    \/ LoginGoogle
    \/ FlowFirebase
    \/ FlowToken
    \/ FlowSync
    \/ FlowProfile
    \/ HandleLogout
    \/ LogoutSignOut
    \/ LogoutResolved

SpecSignIn == InitAuth /\ [][NextSignIn]_vars

-----------------------------------------------------------------------------
(* Properties of checkEventConflict (checked under SpecEval)               *)

\* the half-open intersection test of [a.start, a.end) and [b.start, b.end)
HalfOpen(a, b) == a.start_time < b.end_time /\ b.start_time < a.end_time

\* an interval whose start is strictly before its end
Proper(x) == x.start_time < x.end_time

\* the call has returned
Evaluated == evalPc = "done"

\* the indices of the entries of the evaluated list
EvalIdx == 1..Len(evalSchedules)

\* candidate and all entries have start < end
AllProper == Proper(evalEvent) /\ \A i \in EvalIdx : Proper(evalSchedules[i])

\* the smaller / larger of two instants
MinOf(a, b) == IF a <= b THEN a ELSE b
MaxOf(a, b) == IF a <= b THEN b ELSE a

SpanContains(x, t) ==
    /\ MinOf(x.start_time, x.end_time) <= t
    /\ t <= MaxOf(x.start_time, x.end_time)

\* the candidate has start = end
ZeroLengthCandidate == evalEvent.start_time = evalEvent.end_time

OnlyZeroLengthEntries ==
    \A i \in EvalIdx : evalSchedules[i].start_time = evalSchedules[i].end_time

HalfOpenHits == {i \in EvalIdx : HalfOpen(evalEvent, evalSchedules[i])}

\* the reason text the claims prescribe for entry x
ReasonNaming(x) == "Conflicts with " \o x.title \o " (" \o x.type \o ")"

Least(S) == CHOOSE i \in S : \A j \in S : i <= j

\* the list with the entries at positions i and j exchanged
Swapped(list, i, j) ==
    [k \in 1..Len(list) |->
        IF k = i THEN list[j] ELSE IF k = j THEN list[i] ELSE list[k]]

\* the result names the half-open hit of smallest index, and exchanging that
\* entry with any other half-open hit makes the result name the other one
FirstHitNamed ==
    LET f == Least(HalfOpenHits)
    IN  /\ evalResult.reason = ReasonNaming(evalSchedules[f])
        /\ \A j \in HalfOpenHits \ {f} :
              checkEventConflict(evalEvent, Swapped(evalSchedules, f, j)).reason
                  = ReasonNaming(evalSchedules[j])

SomeInverted ==
    \/ evalEvent.end_time < evalEvent.start_time
    \/ \E i \in EvalIdx : evalSchedules[i].end_time < evalSchedules[i].start_time

\* the three clauses of the source on the raw instants of candidate a and entry b
RawThreeClause(a, b) ==
    \/ (a.start_time >= b.start_time /\ a.start_time < b.end_time)
    \/ (a.end_time > b.start_time /\ a.end_time <= b.end_time)
    \/ (a.start_time <= b.start_time /\ a.end_time >= b.end_time)

\* the indices of the entries that pass the three clauses on the raw instants
RawHits == {i \in EvalIdx : RawThreeClause(evalEvent, evalSchedules[i])}

Perms(n) == Permutations(1..n)

\* the list in the order given by the permutation f
Permuted(list, f) == [i \in 1..Len(list) |-> list[f[i]]]

\* the list with a copy of its i-th entry added at its end
Duplicated(list, i) == Append(list, list[i])

\* the result either has no reason or names an entry of the evaluated list
NamesAnEntry(result) ==
    \/ result.reason = Undefined
    \/ \E k \in EvalIdx : result.reason = ReasonNaming(evalSchedules[k])

\* C14: whether a conflict is reported (canRegister) is the same for every
\* permutation of the schedules list and after duplicating any entry of it (the
\* copy added at the end, every other place being a permutation away); only the
\* entry named in the reason may change.
C14_OrderAndDuplicatesIrrelevant ==
    Evaluated =>
        /\ \A f \in Perms(Len(evalSchedules)) :
              LET r == checkEventConflict(evalEvent, Permuted(evalSchedules, f))
              IN  r.canRegister = evalResult.canRegister /\ NamesAnEntry(r)
        /\ \A i \in EvalIdx :
              LET r == checkEventConflict(evalEvent, Duplicated(evalSchedules, i))
              IN  r.canRegister = evalResult.canRegister /\ NamesAnEntry(r)

\* a list of two entries of which only the second conflicts with the candidate,
\* so that exchanging them changes the entry met first
C14_Witness ==
    /\ Evaluated /\ Len(evalSchedules) = 2
    /\ ~evalResult.canRegister
    /\ checkEventConflict(evalEvent, <<evalSchedules[1]>>).canRegister
    /\ ~checkEventConflict(evalEvent, <<evalSchedules[2]>>).canRegister

C16_EmptySchedulesAllowAll ==
    (Evaluated /\ evalSchedules = <<>>) =>
        /\ evalResult.canRegister = TRUE
        /\ evalResult.reason = Undefined

\* a call with an empty list has returned, for a candidate that is not a proper
\* interval
C16_Witness ==
    /\ Evaluated /\ evalSchedules = <<>>
    /\ ~Proper(evalEvent)
    /\ evalResult.canRegister = TRUE

\* the three-clause test of the loop body on the candidate and the entry x
ThreeClause(x) ==
    OverlapTest(NewDate(evalEvent.start_time), NewDate(evalEvent.end_time),
                NewDate(x.start_time), NewDate(x.end_time))

-----------------------------------------------------------------------------
(* Properties of the Events component (checked under Spec)                 *)

\* no fetchSchedules and no fetchEvents call is awaiting its response
Settled == mounted /\ schedulesPending = 0 /\ eventsPending = {}

\* the stored event carries the annotation computed against the list scheds
AnnotatedAgainst(event, scheds) ==
    event = Annotated(event, checkEventConflict(event, scheds))

\* C8: if schedules is replaced by a new snapshot while a fetchEvents request is in
\* flight, then once every in-flight request has completed, in any order, every
\* event of the events state carries the annotation computed against the latest
\* schedules snapshot.
C8_EventsFollowLatestSchedules ==
    (raced /\ Settled) =>
        \A i \in 1..Len(events) : AnnotatedAgainst(events[i], schedules.list)

\* a fetchEvents call has completed an annotation pass
PassDone == lastPass # NullObject

\* C9: an annotation pass runs only after the schedule fetch has completed: events
\* are never annotated and stored against the initial empty schedules placeholder
\* while the schedule fetch is still pending.
C9_NoPassOnPlaceholderWhileFetching ==
    (PassDone /\ Len(events) > 0) =>
        ~(lastPass.captured.initial /\ lastPass.fetching)

\* C10: within one annotation pass of fetchEvents every event of the page is
\* evaluated against one and the same schedules snapshot, the one the call
\* captured when it started, even if setSchedules ran while the call was awaiting
\* its response.
C10_OnePassOneSnapshot ==
    PassDone =>
        /\ Len(lastPass.reads) = Len(events)
        /\ \A i \in 1..Len(events) :
              /\ lastPass.reads[i] = lastPass.captured.list
              /\ AnnotatedAgainst(events[i], lastPass.reads[i])

\* a pass over a page of two events that ended after schedules had been replaced,
\* where the schedules state would annotate one of the events differently
C10_Witness ==
    /\ PassDone /\ lastPass.replaced /\ Len(events) = 2
    /\ \E i \in 1..Len(events) : ~AnnotatedAgainst(events[i], schedules.list)

\* the loop of checkEventConflict finds an entry of scheds that passes its test
\* against the event
ConflictFound(event, scheds) ==
    \E j \in 1..Len(scheds) :
        OverlapTest(NewDate(event.start_time), NewDate(event.end_time),
                    NewDate(scheds[j].start_time), NewDate(scheds[j].end_time))

\* C11: every event that fetchEvents stores in the events state carries a
\* canRegister flag equal to "the evaluator found no conflict" (against the
\* schedules the call captured), and a conflictReason that is present exactly when
\* canRegister is false.
C11_StoredEventsCarryResult ==
    \A i \in 1..Len(events) :
        /\ PassDone
        /\ events[i].canRegister = ~ConflictFound(events[i], lastPass.captured.list)
        /\ (events[i].conflictReason # Undefined) = (events[i].canRegister = FALSE)

\* a stored page with one event that may be registered and one that may not
C11_Witness ==
    /\ PassDone
    /\ \E i, j \in 1..Len(events) :
          /\ events[i].canRegister /\ events[i].conflictReason = Undefined
          /\ ~events[j].canRegister /\ events[j].conflictReason # Undefined

\* C12: the Register action is offered for a displayed event exactly when the
\* conflict result attached to that event is canRegister true; an event
\* annotated with a conflict never exposes Register.
C12_RegisterOnlyWhenCanRegister ==
    /\ EventsView = "table" =>
            \A i \in 1..Len(events) :
                (i \in RegisterOffered) = (events[i].canRegister = TRUE)
    /\ \A i \in 1..Len(events) :
            (events[i].conflictReason # Undefined \/ StatusCell(events[i]) = "Conflict")
                => i \notin RegisterOffered

\* the table shows one row with the Register button and one row without it
C12_Witness ==
    /\ EventsView = "table"
    /\ \E i, j \in 1..Len(events) :
          /\ i \in RegisterOffered /\ events[i].canRegister
          /\ j \notin RegisterOffered /\ events[j].conflictReason # Undefined

\* both time strings of x denote an instant
WellFormed(x) ==
    x.start_time # InvalidTimeString /\ x.end_time # InvalidTimeString

\* C13: an event or schedule entry whose start_time or end_time cannot be parsed
\* never reaches the evaluator: its load fails and no canRegister / conflictReason
\* annotation is produced for it, so no annotation pass has such an event on its
\* page or such an entry in the schedules it reads, and no such event is stored.
C13_MalformedNeverEvaluated ==
    /\ \A i \in 1..Len(events) : WellFormed(events[i])
    /\ (PassDone /\ Len(events) > 0) =>
            \A j \in 1..Len(lastPass.captured.list) :
                WellFormed(lastPass.captured.list[j])

\* C20: loading is true in every state in which a fetchEvents request is in
\* flight, also when calls overlap.
C20_LoadingWhileInFlight == eventsPending # {} => loading = TRUE

\* C21: when the events request fails (network error or response that is not
\* OK), fetchEvents sets error to a message that is not null, leaves the stored
\* events list as it was, and loading returns to false.
C21_FailedFetchKeepsEvents ==
    [][EventsResponseFail =>
          /\ error' # Null /\ error' # ""
          /\ events' = events
          /\ loading' = FALSE]_vars

\* a fetchEvents call has failed after an earlier one had stored a page
C21_Witness ==
    /\ error \in {"Failed to fetch events", "Failed to fetch", "Failed to load events"}
    /\ Len(events) > 0
    /\ loading = FALSE /\ eventsPending = {}

\* C29: a failed schedule fetch (network error or response that is not OK)
\* leaves schedules, events and error as they were, so events keep being
\* annotated against the previous schedules value: while that is still the
\* initial empty list, every stored event has canRegister true.
C29_FailedSchedulesFetchChangesNothing ==
    /\ [][SchedulesResponseFail =>
             /\ schedules' = schedules
             /\ events' = events
             /\ error' = error]_vars
    /\ [](schedules.initial =>
             \A i \in 1..Len(events) :
                 events[i].canRegister = TRUE /\ lastPass.captured = schedules)

\* every fetchSchedules call of a signed-in user with a profile has failed, and a
\* page of events has been stored since
C29_Witness ==
    /\ mounted /\ idToken # Null /\ userProfile # NullObject
    /\ schedulesPending = 0 /\ schedules.initial
    /\ Len(events) = 2 /\ lastPass.fetching = FALSE
    /\ \A i \in 1..Len(events) : events[i].canRegister = TRUE

-----------------------------------------------------------------------------
(* Properties of the AuthProvider and the App shell (checked under SpecAuth) *)

\* no async function is awaiting anything and the SDK has no observer call left
\* to make
Quiescent == authTasks = EmptyBag /\ ~authNotice

\* C17: once logout() has resolved, the signed-out observer callback has run and
\* every asynchronous continuation started before the logout has completed,
\* idToken and userProfile are both null, whatever the interleaving.
C17_LogoutClearsSession ==
    (loggedOut /\ Quiescent) => (idToken = Null /\ userProfile = NullObject)

\* C18: every API request carries a bearer token that is not null: no request is
\* issued by a function whose idToken, or explicitly passed token, is null.
C18_RequestsCarryToken == \A r \in sent : r.token # Null

\* the sync, events and friend requests have all been issued, and both
\* fetchEvents and handleSendRequest have also been called without a token
C18_Witness ==
    /\ {"POST /api/users/sync", "GET /api/events", "POST /api/friends/requests"}
            \subseteq {r.api : r \in sent}
    /\ {"fetchEvents", "handleSendRequest"} \subseteq refused

-----------------------------------------------------------------------------
(* Properties of the create / edit form (SpecForm)                         *)

\* the state resetForm leaves: no event being edited, the form closed, every
\* field empty, no error and no success message
FormIsReset ==
    /\ editingEvent = NullObject
    /\ showCreateForm = FALSE
    /\ \A name \in DOMAIN formData : formData[name] = ""
    /\ error = Null
    /\ success = Null

\* C23: once handleCreateEvent or handleUpdateEvent has received an OK response
\* and finished, the success state holds 'Event created successfully!' or
\* 'Event updated successfully!' respectively, so that the message is displayed.
C23_SuccessMessageShown ==
    lastOk # "none" => success = SuccessMessage(lastOk)

\* C30: whatever header-button clicks, Edit clicks, Cancel clicks and form
\* submissions have happened, an event being edited implies that the form is
\* shown, and resetForm (the Cancel button, and the end of a successful
\* submission) leaves editingEvent null, showCreateForm false, every form field
\* empty, and error and success null.
C30_EditingImpliesFormShown ==
    /\ [](editingEvent # NullObject => showCreateForm)
    /\ [][(CancelClick \/ SubmitResponseOk) => FormIsReset']_vars

\* C30 witness: after a submission has been answered, an event is being edited in
\* the open form
C30_Witness ==
    /\ submits >= 1 /\ submitsPending = EmptyBag
    /\ editingEvent # NullObject /\ showCreateForm
    /\ formData # EmptyForm


-----------------------------------------------------------------------------
(* Properties of the Feed (SpecFeed)                                       *)

\* the pages at offsets 0, 10, ..., in order, none skipped and none repeated
ConsecutivePages(list) == \A i \in 1..Len(list) : list[i] = (i - 1) * Limit

\* C26: after any sequence of the initial load, loadMore clicks and successful
\* post creations, each run to completion before the next one starts, posts is
\* the concatenation of the server's pages at offsets 0, 10, ..., k, with no page
\* skipped and none repeated.
C26_PostsAreConsecutivePages ==
    (~feedDisturbed /\ feedPending = {}) => ConsecutivePages(posts)


-----------------------------------------------------------------------------
(* Properties of the user search (SpecSearch)                              *)

\* C27: once every search request has completed and no search is about to be
\* issued, searchResults holds the response to the most recently issued query, and
\* is empty when the query is empty, in whatever order the responses arrived.
C27_ResultsOfLatestQuery ==
    (activeTab = "search" /\ searchPending = {} /\ ~searchTimer) =>
        searchResults = IF Trim(searchQuery) = "" THEN <<>> ELSE lastAnswer


-----------------------------------------------------------------------------
(* Properties of the Profile page (SpecProfile)                            *)

\* there is a token, and every request for the user profile has ended without a
\* profile
ProfileNeverObtained ==
    /\ profileMounted /\ idToken # Null /\ userProfile = NullObject
    /\ mePending = 0

\* C25: when a token exists but the user profile is never obtained, the Profile
\* page eventually leaves 'Loading profile...' (loading becomes false) and shows
\* 'Failed to load profile'.
C25_EventuallyFailedToLoad ==
    [](ProfileNeverObtained =>
          <>(~profileLoading /\ ProfileView = "Failed to load profile"))


-----------------------------------------------------------------------------
(* Properties of the sign-up and Google sign-in calls (SpecSignIn)         *)

\* C22: when the Firebase account has been created but the backend sync fails,
\* signUpWithEmail rejects with the message 'Account created but failed to sync
\* with backend. Please try logging in.', and that message is what the caller
\* receives.
C22_SyncFailureMessageReachesCaller ==
    (flowEnd.kind = "signUpWithEmail" /\ flowEnd.cause = "sync") =>
        /\ flowEnd.outcome = "rejected"
        /\ flowEnd.message = SyncFailedMessage

\* a signInWithGoogle call has its token and awaits the backend sync
GoogleAtSync ==
    \E t \in BagToSet(authTasks) : t.kind = "signInWithGoogle" /\ t.pc = "sync"

\* C24: signInWithGoogle does not fail when only the backend sync fails: once the
\* popup and the token retrieval have succeeded, idToken has been set, and the
\* call resolves without throwing whether syncUserToBackend and the
\* fetchUserProfile that follows it succeed or fail.
C24_GoogleSignInSurvivesSyncFailure ==
    /\ [][(FlowToken /\ ~GoogleAtSync /\ GoogleAtSync') => idToken' = Token]_vars
    /\ []((flowEnd.kind = "signInWithGoogle" /\ flowEnd.outcome = "rejected") =>
              flowEnd.cause \in {"firebase", "getIdTokenResult"})

\* C24 witness: a signInWithGoogle call whose sync failed has resolved, and the
\* token it set is in place
C24_Witness ==
    /\ flowEnd.kind = "signInWithGoogle" /\ flowEnd.cause = "sync"
    /\ flowEnd.outcome = "resolved"
    /\ idToken = Token
    /\ userProfile = NullObject

====
